---- MODULE Spec2Model ----
(***************************************************************************)
(* Discord guild-membership cache (DiscordGuildCache), the verification    *)
(* cron job that refreshes it and sweeps pg_sessions, and the membership   *)
(* gate of the three passport strategies (local login, Discord OAuth,      *)
(* local signup).                                                          *)
(*                                                                         *)
(* Node.js runs each callback to its next await without interruption, so   *)
(* one action is one such run: the code from one await (or the call) to    *)
(* the next await (or the return), together with the answer the awaited    *)
(* collaborator (Discord API, Postgres) gave.                              *)
(***************************************************************************)
EXTENDS Integers, Sequences, FiniteSets, TLC

\* ---------------------------------------------------------------- bounds
MaxSessions == 2
MaxClock == 1
MaxLen == 3
MaxName == 1

\* ------------------------------------------------------------ value sets
Ids == {"A", "B"}
NoId == "none"
Sids == 1..MaxSessions
Times == 0..MaxClock
Ticks == {"t1", "t2"}
Flows == {"login", "discord", "signup"}

VARIABLES
    env,            \* process.env: which of the two Discord settings are set
    jobStarted,     \* the verification CronJob has been created and started
    guild,          \* the roster the Discord API would report now
    now,            \* the system clock, as new Date() reads it
    memberIds,      \* DiscordGuildCache.memberIds
    lastSync,       \* DiscordGuildCache.lastSync: <<>> is null, <<t>> a Date
    syncInProgress, \* DiscordGuildCache.syncInProgress
    sessions,       \* table pg_sessions, by sid
    tick,           \* the running invocations of onGuildVerificationTick
    auth,           \* one passport verify callback in progress
    read,           \* what the last call of a cache getter returned
    mask,           \* the last call of maskEmail: its arguments and result
    call,           \* a call of syncGuildMembers from outside the job
    signup,         \* one handleSignUp callback, step by step
    masked          \* the last call of maskEmailInData

vars == <<env, jobStarted, guild, now, memberIds, lastSync, syncInProgress,
          sessions, tick, auth, read, mask, call, signup, masked>>

cacheVars == <<memberIds, lastSync, syncInProgress>>
\* what neither the job nor a passport callback writes
worldVars == <<env, jobStarted, guild, now, read, mask, call, signup, masked>>
\* the two calls followed on their own
formVars == <<signup, masked>>

\* ------------------------------------------------------- session store
\* A row of pg_sessions as the job sees it: the sid, the discord_id inside
\* sess->'passport'->'user', and whether expire > NOW() has stopped holding.
\* A sid is never issued twice: a deleted row stays "deleted".
NoRow(st) == [st |-> st, discord_id |-> NoId, expired |-> FALSE]
LiveRows == [st : {"live"}, discord_id : Ids \cup {NoId}, expired : BOOLEAN]
Rows == {NoRow("unused"), NoRow("deleted")} \cup LiveRows

\* a SELECT with no WHERE clause
Selected_all(s) == sessions[s].st = "live"

\* SELECT ... WHERE discord_id IS NOT NULL AND expire > NOW(), job lines
\* 35-44; the rows come back in sid order
Selected(s) ==
    /\ sessions[s].st = "live"
    /\ sessions[s].discord_id # NoId
    /\ ~sessions[s].expired

RECURSIVE SelectFrom(_)
SelectFrom(s) ==
    IF s > MaxSessions THEN <<>>
    ELSE (IF Selected(s)
          THEN <<[sid |-> s, discord_id |-> sessions[s].discord_id]>>
          ELSE <<>>) \o SelectFrom(s + 1)

SessionsQuery == SelectFrom(1)

\* a DELETE whose WHERE clause matches no row
DeleteSession_noop(store, sid) == store

\* a DELETE that takes every row from the given sid on
DeleteSession_onward(store, sid) ==
    [s \in Sids |-> IF s >= sid /\ store[s].st = "live"
                    THEN NoRow("deleted") ELSE store[s]]

\* DELETE FROM pg_sessions WHERE sid = $1: removes the row if it is there
DeleteSession(store, sid) ==
    IF store[sid].st = "live"
    THEN [store EXCEPT ![sid] = NoRow("deleted")]
    ELSE store

\* the session passport opens for the user it was handed
FreeSids == {s \in Sids : sessions[s].st = "unused"}
OpenSession(id) ==
    IF FreeSids = {} THEN sessions
    ELSE LET s == CHOOSE x \in FreeSids : \A y \in FreeSids : x <= y
         IN [sessions EXCEPT ![s] =
                [st |-> "live", discord_id |-> id, expired |-> FALSE]]

\* --------------------------------------------------- DiscordGuildCache
IsMember(discordId) == discordId \in memberIds
GetMemberCount == Cardinality(memberIds)
GetLastSync == lastSync

\* A call of one of the getters from anywhere in the process, and what it
\* returned; the fields of the getters not called hold their defaults.
NoRead == [op |-> "none", arg |-> NoId, member |-> FALSE, count |-> 0,
           stamp |-> <<>>]

\* a lookup that starts a refresh when asked
IsMemberCall_syncing(discordId) ==
    /\ read' = [NoRead EXCEPT !.op = "isMember", !.arg = discordId,
                              !.member = IsMember(discordId)]
    /\ syncInProgress' = TRUE
    /\ UNCHANGED <<formVars, env, jobStarted, guild, now, memberIds, lastSync,
                   sessions, tick, auth, mask, call>>

\* lines 59-61
IsMemberCall(discordId) ==
    /\ read' = [NoRead EXCEPT !.op = "isMember", !.arg = discordId,
                              !.member = IsMember(discordId)]
    /\ UNCHANGED <<formVars, env, jobStarted, guild, now, cacheVars, sessions, tick,
                   auth, mask, call>>

\* lines 68-70
GetMemberCountCall ==
    /\ read' = [NoRead EXCEPT !.op = "getMemberCount",
                              !.count = GetMemberCount]
    /\ UNCHANGED <<formVars, env, jobStarted, guild, now, cacheVars, sessions, tick,
                   auth, mask, call>>

\* lines 77-79
GetLastSyncCall ==
    /\ read' = [NoRead EXCEPT !.op = "getLastSync", !.stamp = GetLastSync]
    /\ UNCHANGED <<formVars, env, jobStarted, guild, now, cacheVars, sessions, tick,
                   auth, mask, call>>

\* a guard that never sees a sync in progress
AlreadyInProgress_never == FALSE

\* line 26: the guard of syncGuildMembers
AlreadyInProgress == syncInProgress

\* the fetched members added to the old set instead of replacing it
NewMemberIds_merge(members) == memberIds \cup members

\* line 40: the set built from the fetched members replaces the old one
NewMemberIds(members) == members

\* a sync that forgets the stamp, and one that stamps a fixed date
NewLastSync_unstamped == lastSync
NewLastSync_epoch == <<0>>

\* line 41: the stamp of a successful sync
NewLastSync == <<now>>

\* a catch block that empties the cache
MemberIdsAfterFailure_empty == {}

\* lines 44-46: what the catch block leaves in the cache
MemberIdsAfterFailure == memberIds
LastSyncAfterFailure == lastSync

\* a finally block that leaves the flag as it finds it
FlagAfterSync_kept == syncInProgress

\* line 48: the finally block, on the way out of the try and of the catch
FlagAfterSync == FALSE

\* what the caller of syncGuildMembers sees of each way the call ends: the
\* promise resolves with no value (line 28 and the fall-through after line
\* 43) or rejects with an Error (lines 33 and 46)
SyncPaths == {"none", "skipped", "synced", "threw"}
Settled(path) == IF path \in {"skipped", "synced"} THEN "resolved"
                 ELSE IF path = "threw" THEN "rejected" ELSE "pending"

\* A caller of the exported guildCache.syncGuildMembers other than the
\* job: error tells the two Errors the method throws apart ("config" is
\* line 33, "fetch" is line 46).
NoCall == [pc |-> "idle", sync |-> "none", error |-> "none"]
Returned(sync, error) == [pc |-> "done", sync |-> sync, error |-> error]

\* a method that does not look at the guild id
MissingGuildId_ignored == FALSE

\* lines 31-32
MissingGuildId == ~env.DISCORD_GUILD_ID

\* lines 26-39: the call up to its return, its throw or its await
SyncCall ==
    /\ call.pc \in {"idle", "done"}
    /\ IF AlreadyInProgress
       THEN /\ call' = Returned("skipped", "none")
            /\ UNCHANGED syncInProgress
       ELSE IF MissingGuildId
       THEN /\ call' = Returned("threw", "config")
            /\ UNCHANGED syncInProgress
       ELSE /\ syncInProgress' = TRUE
            /\ call' = [NoCall EXCEPT !.pc = "fetch_await"]
    /\ UNCHANGED <<formVars, env, jobStarted, guild, now, memberIds, lastSync,
                   sessions, tick, auth, read, mask>>

\* lines 40-43 and 48
SyncCallResolves ==
    /\ call.pc = "fetch_await"
    /\ memberIds' = NewMemberIds(guild)
    /\ lastSync' = NewLastSync
    /\ syncInProgress' = FlagAfterSync
    /\ call' = Returned("synced", "none")
    /\ UNCHANGED <<formVars, env, jobStarted, guild, now, sessions, tick, auth, read,
                   mask>>

\* lines 44-48
SyncCallRejects ==
    /\ call.pc = "fetch_await"
    /\ memberIds' = MemberIdsAfterFailure
    /\ lastSync' = LastSyncAfterFailure
    /\ syncInProgress' = FlagAfterSync
    /\ call' = Returned("threw", "fetch")
    /\ UNCHANGED <<formVars, env, jobStarted, guild, now, sessions, tick, auth, read,
                   mask>>

\* a clear that leaves the members in place
MemberIdsAfterClear_kept == memberIds

\* line 96
MemberIdsAfterClear == {}

\* line 97
LastSyncAfterClear == <<>>

\* a clear that also gives up the refresh in flight
FlagAfterClear_reset == FALSE

\* lines 95-98: clear does not assign syncInProgress
FlagAfterClear == syncInProgress

\* lines 95-98: a call of the exported guildCache.clear
Clear ==
    /\ memberIds' = MemberIdsAfterClear
    /\ lastSync' = LastSyncAfterClear
    /\ syncInProgress' = FlagAfterClear
    /\ UNCHANGED <<worldVars, sessions, tick, auth>>

\* ------------------------------------------------ onGuildVerificationTick
TickPcs == {"idle", "sync_await", "query_await", "delete_await",
            "complete", "failed"}
TickRest == {"idle", "complete", "failed"}

FreshTick == [pc |-> "idle", sync |-> "none", rows |-> <<>>, i |-> 0,
              deletedCount |-> 0]

\* the membership test the wrong way round
ToDelete_inverted(row) == row.discord_id # NoId /\ row.discord_id \in memberIds

\* lines 52-56: the test the loop makes of one row
ToDelete(row) == row.discord_id # NoId /\ ~IsMember(row.discord_id)

\* a loop that deletes every row it comes to
Victim_next(rows, from) == IF from <= Len(rows) THEN from ELSE 0

\* lines 49-56: the first row at or after position from that the loop
\* stops at to delete, 0 when the loop runs to its end
Victim(rows, from) ==
    LET hits == {k \in from..Len(rows) : ToDelete(rows[k])}
    IN IF hits = {} THEN 0 ELSE CHOOSE k \in hits : \A j \in hits : k <= j

\* the loop from position from on, with the cache as it is after this step
Sweep(sync, rows, from, count) ==
    LET k == Victim(rows, from)
    IN IF k = 0
       THEN [FreshTick EXCEPT !.pc = "complete", !.sync = sync,
                              !.deletedCount = count]
       ELSE [pc |-> "delete_await", sync |-> sync, rows |-> rows, i |-> k,
             deletedCount |-> count]

\* a catch block that starts the tick's refresh again
Caught_retry(t, sync) == [FreshTick EXCEPT !.pc = "sync_await"]

\* lines 70-73: the catch logs and the tick ends
Caught(t, sync) ==
    [FreshTick EXCEPT !.pc = "failed", !.sync = sync,
                      !.deletedCount = tick[t].deletedCount]

\* a schedule that a failed tick brings to a stop
MayFire_untilFailure(t) == tick[t].pc \in {"idle", "complete"}

\* lines 85-90: the CronJob calls the tick at every firing and drops its
\* promise; a slot is free for the next firing however the last one ended
MayFire(t) == tick[t].pc \in TickRest

\* the cron fires: lines 27-32, and syncGuildMembers up to its await
TickStart(t) ==
    /\ jobStarted
    /\ MayFire(t)
    /\ IF AlreadyInProgress
       THEN /\ tick' = [tick EXCEPT ![t] =
                           [FreshTick EXCEPT !.pc = "query_await",
                                             !.sync = "skipped"]]
            /\ UNCHANGED syncInProgress
       ELSE IF ~env.DISCORD_GUILD_ID
       THEN /\ tick' = [tick EXCEPT ![t] =
                           [FreshTick EXCEPT !.pc = "failed",
                                             !.sync = "threw"]]
            /\ UNCHANGED syncInProgress
       ELSE /\ syncInProgress' = TRUE
            /\ tick' = [tick EXCEPT ![t] =
                           [FreshTick EXCEPT !.pc = "sync_await"]]
    /\ UNCHANGED <<worldVars, memberIds, lastSync, sessions, auth>>

\* fetchGuildMembers resolves: lines 40-43, 48, then the SELECT is sent
SyncSucceeds(t) ==
    /\ tick[t].pc = "sync_await"
    /\ memberIds' = NewMemberIds(guild)
    /\ lastSync' = NewLastSync
    /\ syncInProgress' = FlagAfterSync
    /\ tick' = [tick EXCEPT ![t].pc = "query_await", ![t].sync = "synced"]
    /\ UNCHANGED <<worldVars, sessions, auth>>

\* fetchGuildMembers rejects, or line 40 throws on what it returned:
\* lines 44-48, then the catch of the tick
SyncFails(t) ==
    /\ tick[t].pc = "sync_await"
    /\ memberIds' = MemberIdsAfterFailure
    /\ lastSync' = LastSyncAfterFailure
    /\ syncInProgress' = FlagAfterSync
    /\ tick' = [tick EXCEPT ![t] = Caught(t, "threw")]
    /\ UNCHANGED <<worldVars, sessions, auth>>

\* the SELECT returns its rows: lines 46-56 up to the first DELETE
QuerySucceeds(t) ==
    /\ tick[t].pc = "query_await"
    /\ tick' = [tick EXCEPT ![t] =
                   Sweep(tick[t].sync, SessionsQuery, 1, 0)]
    /\ UNCHANGED <<worldVars, cacheVars, sessions, auth>>

\* the SELECT throws: lines 70-73
QueryFails(t) ==
    /\ tick[t].pc = "query_await"
    /\ tick' = [tick EXCEPT ![t] = Caught(t, tick[t].sync)]
    /\ UNCHANGED <<worldVars, cacheVars, sessions, auth>>

\* a DELETE returns: lines 58-65, and the loop up to the next DELETE
DeleteSucceeds(t) ==
    /\ tick[t].pc = "delete_await"
    /\ sessions' = DeleteSession(sessions, tick[t].rows[tick[t].i].sid)
    /\ tick' = [tick EXCEPT ![t] =
                   Sweep(tick[t].sync, tick[t].rows, tick[t].i + 1,
                         tick[t].deletedCount + 1)]
    /\ UNCHANGED <<worldVars, cacheVars, auth>>

\* a DELETE throws: the catch of lines 70-73 ends the tick
DeleteFails(t) ==
    /\ tick[t].pc = "delete_await"
    /\ tick' = [tick EXCEPT ![t] = Caught(t, tick[t].sync)]
    /\ UNCHANGED <<worldVars, cacheVars, sessions, auth>>

\* ------------------------------------------------- passport strategies
\* How a verify callback ends: "authorized" is done(null, user); the
\* "denied_*" are done(null, false|null|undefined) with a flash message of
\* that kind; "error_raw" is done(error).
Outcomes == {"none", "authorized", "denied_config", "denied_unavailable",
             "denied_not_member", "denied_other", "error_raw"}
LiveAnswers == {"none", "true", "false", "error"}
CacheAnswers == {"none", "hit", "miss"}

\* cache and live tell what the callback asked and was told: "none" is
\* not asked
IdleAuth == [pc |-> "idle", flow |-> "login", id |-> "A", cache |-> "none",
             live |-> "none", outcome |-> "none"]

Ended(f, id, cache, live, outcome) ==
    [pc |-> "done", flow |-> f, id |-> id, cache |-> cache, live |-> live,
     outcome |-> outcome]

\* discordBot.isUserInGuild as the Discord API answers it now
LiveCheck(id) == IF id \in guild THEN "true" ELSE "false"

\* the checks of a flow that come before the guild check
\*   login: lines 14-47 (fields, account, password, discord_id present)
\*   signup: lines 103-152 (team name, invitation, Discord id free)
\*   discord: none
HasEarlyChecks(f) == f \in {"login", "signup"}

\* a flow that goes on without the guild id
ConfigOutcome_open(f) == "authorized"

\* the outcome when DISCORD_GUILD_ID is not set
\*   login: lines 50-56; discord: lines 46-51; signup: lines 155-159
ConfigOutcome(f) == "denied_config"

\* whether the flow asks the cache before the live check
\*   login: line 59; discord: part_001 line 54; signup: not at all
ConsultsCache(f) == f \in {"login", "discord"}

\* a lookup that finds everyone
CacheLookup_hit(f, id) == "hit"

\* what the flow learns from the cache before its live check
CacheLookup(f, id) ==
    IF ~ConsultsCache(f) THEN "none"
    ELSE IF IsMember(id) THEN "hit" ELSE "miss"

\* a gate that lets through whatever the live check answers
Denies_never(answer) == FALSE

\* the test made of the live answer: login line 72, discord line 60,
\* signup line 162
Denies(answer) == answer # "true"

\* a live check whose error lets the user through
ErrorOutcome_failOpen(f) == "authorized"

\* the outcome when the live check throws
\*   login: lines 65-70; discord: the outer catch, lines 141-152;
\*   signup: isDiscordUserInGuild returns false, then lines 162-164
ErrorOutcome(f) ==
    CASE f = "login" -> "denied_unavailable"
      [] f = "discord" -> "error_raw"
      [] f = "signup" -> "denied_not_member"

\* the outcomes open to a flow once the guild check has passed
\*   login: line 83; discord: lines 68-139 and the catch;
\*   signup: lines 166-204
PassedOutcomes(f) ==
    CASE f = "login" -> {"authorized"}
      [] f = "discord" -> {"authorized", "denied_other", "error_raw"}
      [] f = "signup" -> {"authorized", "denied_other"}

Finish(f, id, cache, live, outcome) ==
    /\ auth' = Ended(f, id, cache, live, outcome)
    /\ sessions' = IF outcome = "authorized" THEN OpenSession(id)
                   ELSE sessions

\* a request arrives: the callback runs to its live check or to its end
AuthStart(f, id) ==
    /\ auth.pc \in {"idle", "done"}
    /\ \/ /\ HasEarlyChecks(f)
          /\ Finish(f, id, "none", "none", "denied_other")
       \/ IF ~env.DISCORD_GUILD_ID
          THEN Finish(f, id, "none", "none", ConfigOutcome(f))
          ELSE IF CacheLookup(f, id) = "hit"
          THEN \E o \in PassedOutcomes(f) :
                   Finish(f, id, "hit", "none", o)
          ELSE /\ auth' = [pc |-> "live_await", flow |-> f, id |-> id,
                           cache |-> CacheLookup(f, id), live |-> "none",
                           outcome |-> "none"]
               /\ UNCHANGED sessions
    /\ UNCHANGED <<worldVars, cacheVars, tick>>

\* a gate that puts the identity a live check confirmed into the cache
AuthLiveAnswers_caching ==
    /\ auth.pc = "live_await"
    /\ LET a == LiveCheck(auth.id)
       IN /\ IF Denies(a)
             THEN Finish(auth.flow, auth.id, auth.cache, a,
                         "denied_not_member")
             ELSE \E o \in PassedOutcomes(auth.flow) :
                      Finish(auth.flow, auth.id, auth.cache, a, o)
          /\ memberIds' = IF Denies(a) THEN memberIds
                          ELSE memberIds \cup {auth.id}
    /\ UNCHANGED <<worldVars, lastSync, syncInProgress, tick>>

\* isUserInGuild resolves
AuthLiveAnswers ==
    /\ auth.pc = "live_await"
    /\ LET a == LiveCheck(auth.id)
       IN IF Denies(a)
          THEN Finish(auth.flow, auth.id, auth.cache, a,
                      "denied_not_member")
          ELSE \E o \in PassedOutcomes(auth.flow) :
                   Finish(auth.flow, auth.id, auth.cache, a, o)
    /\ UNCHANGED <<worldVars, cacheVars, tick>>

\* isUserInGuild rejects
AuthLiveThrows ==
    /\ auth.pc = "live_await"
    /\ Finish(auth.flow, auth.id, auth.cache, "error",
              ErrorOutcome(auth.flow))
    /\ UNCHANGED <<worldVars, cacheVars, tick>>

\* ------------------------------------------------------------ maskEmail
\* A string is a sequence of pieces: a name piece, the at sign, the masking
\* domain. Absent is null or undefined, which the code does not tell apart.
Pieces == {"j", "@", "esx-framework.org"}
Absent == <<"absent">>
Strings(n) == UNION {[1..k -> Pieces] : k \in 0..n}
Emails == {Absent} \cup Strings(MaxLen)
Usernames == {Absent} \cup Strings(MaxName)
OptionValues == {"unset", "false", "true"}
MaskEmailOptions == [isAdmin : OptionValues, isOwnProfile : OptionValues,
                     isPendingInvitation : OptionValues]

\* !x of a string | null | undefined
Falsy(str) == str = Absent \/ str = <<>>

\* line 152: a flag after its default
Flag(v) == v = "true"

\* originalEmail.split("@")[0]: what stands before the first at sign
LocalPart(str) ==
    LET ats == {k \in 1..Len(str) : str[k] = "@"}
    IN IF ats = {} THEN str
       ELSE SubSeq(str, 1, (CHOOSE k \in ats : \A j \in ats : k <= j) - 1)

\* the literal of line 173
MaskDomain == <<"@", "esx-framework.org">>

\* a fallback that always takes the username, absent or not
UsernameToUse_raw(originalEmail, username) ==
    IF username = Absent THEN <<>> ELSE username

\* line 171
UsernameToUse(originalEmail, username) ==
    IF ~Falsy(username) THEN username
    ELSE IF ~Falsy(LocalPart(originalEmail)) THEN LocalPart(originalEmail)
    ELSE <<"user">>

\* lines 142-174
MaskEmail(originalEmail, username, options) ==
    IF Falsy(originalEmail) THEN <<>>
    ELSE IF Flag(options.isAdmin) THEN originalEmail
    ELSE IF Flag(options.isOwnProfile) THEN originalEmail
    ELSE IF Flag(options.isPendingInvitation) THEN originalEmail
    ELSE UsernameToUse(originalEmail, username) \o MaskDomain

NoMask == [called |-> FALSE, originalEmail |-> Absent, username |-> Absent,
           options |-> [isAdmin |-> "unset", isOwnProfile |-> "unset",
                        isPendingInvitation |-> "unset"],
           result |-> <<>>]

\* a call of maskEmail
MaskEmailCall(originalEmail, username, options) ==
    /\ mask' = [called |-> TRUE, originalEmail |-> originalEmail,
                username |-> username, options |-> options,
                result |-> MaskEmail(originalEmail, username, options)]
    /\ UNCHANGED <<formVars, env, jobStarted, guild, now, cacheVars, sessions, tick,
                   auth, read, call>>

\* ----------------------------------------------------------- handleSignUp
\* The request (req.body), what the database holds for it, and how far the
\* callback has come. team_name and team_member_id say whether the field
\* is truthy. invitation is the discord_id of the row of email_invitations
\* that matches (team_member_id, email, team_id): "missing" is no such
\* row, NoId a row with no discord_id, "malformed" one that
\* isValidDiscordIdFormat refuses. discord_id is the local variable of
\* line 101, asked the id handed to isDiscordUserInGuild, registered the id
\* handed to register_user. passed lists the checks the callback has
\* passed, in the order it passed them.
SignUpPcs == {"idle", "invitation_await", "taken_await", "live_await",
              "google_await", "deactivated_await", "register_await", "done"}
SignUpOutcomes == {"none", "registered", "rejected", "denied_team_name",
                   "denied_invite_only", "denied_invitation",
                   "denied_no_discord_id", "denied_format", "denied_taken",
                   "denied_config", "denied_not_member", "denied_google",
                   "denied_deactivated", "denied_register"}
Invitations == {"missing", NoId, "malformed"} \cup Ids
SignUpRequests == [team_name : BOOLEAN, team_member_id : BOOLEAN,
                   discord_id : Ids \cup {NoId}]

NoSignUp ==
    [pc |-> "idle",
     req |-> [team_name |-> FALSE, team_member_id |-> FALSE,
              discord_id |-> NoId],
     invitation |-> "missing", taken |-> FALSE,
     discord_id |-> NoId, asked |-> NoId, live |-> "none",
     passed |-> <<>>, outcome |-> "none", registered |-> NoId]

\* line 41: the ids of the model are well-formed, "malformed" is not
IsValidDiscordIdFormat(discordId) == discordId \in Ids

\* a callback that lets the id of the request stand where one was sent
InvitationDiscordId_supplied(invitationDiscordId, supplied) ==
    IF supplied # NoId THEN supplied ELSE invitationDiscordId

\* line 134: the invitation's id replaces whatever the request held
InvitationDiscordId(invitationDiscordId, supplied) == invitationDiscordId

\* return done(null, null, flash) or done(null, user, flash)
SignUpDone(outcome) ==
    [signup EXCEPT !.pc = "done", !.outcome = outcome]

\* a check is passed and the callback goes on to its next await
SignUpOn(pc, checks) ==
    [signup EXCEPT !.pc = pc, !.passed = signup.passed \o checks]

SignUpFrame ==
    UNCHANGED <<env, jobStarted, guild, now, cacheVars, sessions, tick,
                auth, read, mask, call, masked>>

\* lines 98-116
SignUpStart ==
    /\ signup.pc = "idle"
    /\ signup' =
          LET s == [signup EXCEPT !.discord_id = signup.req.discord_id]
          IN IF ~s.req.team_name
             THEN [s EXCEPT !.pc = "done", !.outcome = "denied_team_name"]
             ELSE IF ~s.req.team_member_id
             THEN [s EXCEPT !.pc = "done", !.outcome = "denied_invite_only",
                            !.passed = <<"team_name">>]
             ELSE [s EXCEPT !.pc = "invitation_await",
                            !.passed = <<"team_name", "team_member_id">>]
    /\ SignUpFrame

\* lines 122-149 (and 50-55): the invitation query has answered
InvitationAnswers ==
    /\ signup.pc = "invitation_await"
    /\ signup' =
          IF signup.invitation = "missing"
          THEN SignUpDone("denied_invitation")
          ELSE IF signup.invitation = NoId
          THEN [SignUpDone("denied_no_discord_id")
                    EXCEPT !.passed = signup.passed \o <<"invitation">>]
          ELSE LET id == InvitationDiscordId(signup.invitation,
                                             signup.req.discord_id)
               IN IF ~IsValidDiscordIdFormat(id)
                  THEN [SignUpDone("denied_format")
                            EXCEPT !.discord_id = id,
                                   !.passed = signup.passed \o
                                       <<"invitation", "discord_id">>]
                  ELSE [SignUpOn("taken_await",
                                 <<"invitation", "discord_id", "format">>)
                            EXCEPT !.discord_id = id]
    /\ SignUpFrame

\* lines 56 and 150-161 (and 67): isDiscordIdTaken has answered
TakenAnswers(discordIdTaken) ==
    /\ signup.pc = "taken_await"
    /\ signup' =
          IF discordIdTaken
          THEN [SignUpDone("denied_taken") EXCEPT !.taken = TRUE]
          ELSE IF ~env.DISCORD_GUILD_ID
          THEN [SignUpDone("denied_config")
                    EXCEPT !.passed = signup.passed \o <<"not_taken">>]
          ELSE [SignUpOn("live_await", <<"not_taken", "guild_id">>)
                    EXCEPT !.asked = signup.discord_id]
    /\ SignUpFrame

\* what isDiscordUserInGuild returns: lines 67 and 68-70
InGuild(answer) == answer = "true"

\* lines 67 and 162-166: discordBot.isUserInGuild resolves
SignUpLiveAnswers ==
    /\ signup.pc = "live_await"
    /\ LET a == LiveCheck(signup.asked)
       IN signup' =
            IF ~InGuild(a)
            THEN [SignUpDone("denied_not_member") EXCEPT !.live = a]
            ELSE [SignUpOn("google_await", <<"in_guild">>)
                      EXCEPT !.live = a]
    /\ SignUpFrame

\* lines 68-71 and 162-164: discordBot.isUserInGuild throws
SignUpLiveThrows ==
    /\ signup.pc = "live_await"
    /\ signup' = [SignUpDone("denied_not_member") EXCEPT !.live = "error"]
    /\ SignUpFrame

\* lines 21 and 167-170: isGoogleAccountFound has answered
GoogleAnswers(googleAccountFound) ==
    /\ signup.pc = "google_await"
    /\ signup' = IF googleAccountFound
                 THEN SignUpDone("denied_google")
                 ELSE SignUpOn("deactivated_await", <<"no_google">>)
    /\ SignUpFrame

\* lines 171-175 and 75-92: isAccountDeactivated has answered; registerUser
\* is called with the local discord_id
DeactivatedAnswers(accountDeactivated) ==
    /\ signup.pc = "deactivated_await"
    /\ signup' = IF accountDeactivated
                 THEN SignUpDone("denied_deactivated")
                 ELSE SignUpOn("register_await", <<"not_deactivated">>)
    /\ SignUpFrame

\* lines 93-94 and 175-177: register_user has stored the body
RegisterSucceeds ==
    /\ signup.pc = "register_await"
    /\ signup' = [SignUpDone("registered")
                      EXCEPT !.registered = signup.discord_id]
    /\ SignUpFrame

\* lines 178-204: register_user raised
RegisterFails ==
    /\ signup.pc = "register_await"
    /\ signup' = SignUpDone("denied_register")
    /\ SignUpFrame

\* A db.query outside the try block rejects (lines 116, 149, 166, 170):
\* the promise of handleSignUp rejects, done is never called.
SignUpQueryFails ==
    /\ signup.pc \in {"invitation_await", "taken_await", "google_await",
                      "deactivated_await"}
    /\ signup' = SignUpDone("rejected")
    /\ SignUpFrame

\* -------------------------------------------------------- maskEmailInData
\* A single object with the default field names: email and name are
\* strings or absent, pending says whether pending_invitation || is_pending
\* is truthy, other stands for the fields the function does not name.
MaskedData == [email : Emails, name : Usernames, pending : BOOLEAN,
               other : {"x"}]

\* line 243
PendingField(data) == IF data.pending THEN "true" ELSE "false"

\* line 249: the spread of the caller's options, isPendingInvitation last
OptionsPassed(data, options) ==
    [options EXCEPT !.isPendingInvitation = PendingField(data)]

\* lines 237-255, for a single object
MaskEmailInData(data, options) ==
    IF ~Falsy(data.email)
    THEN [data EXCEPT !.email = MaskEmail(data.email, data.name,
                                          OptionsPassed(data, options))]
    ELSE data

\* a call of maskEmailInData(data, "email", "name", options)
MaskEmailInDataCall(data, options) ==
    /\ masked' = [called |-> TRUE, data |-> data, options |-> options,
                  result |-> MaskEmailInData(data, options)]
    /\ UNCHANGED <<env, jobStarted, guild, now, cacheVars, sessions, tick,
                   auth, read, mask, call, signup>>

NoMasked ==
    [called |-> FALSE,
     data |-> [email |-> Absent, name |-> Absent, pending |-> FALSE,
               other |-> "x"],
     options |-> [isAdmin |-> "unset", isOwnProfile |-> "unset",
                  isPendingInvitation |-> "unset"],
     result |-> [email |-> Absent, name |-> Absent, pending |-> FALSE,
                 other |-> "x"]]

\* ------------------------------------------------------- environment
\* someone joins or leaves the Discord server
GuildChanges(id) ==
    /\ guild' = IF id \in guild THEN guild \ {id} ELSE guild \cup {id}
    /\ UNCHANGED <<formVars, env, jobStarted, now, cacheVars, sessions, tick, auth,
                   read, mask, call>>

\* someone joins the Discord server
GuildJoins(id) == id \notin guild /\ GuildChanges(id)

\* time passes
ClockAdvances ==
    /\ now < MaxClock
    /\ now' = now + 1
    /\ UNCHANGED <<formVars, env, jobStarted, guild, cacheVars, sessions, tick, auth,
                   read, mask, call>>

\* a session reaches its expire time
SessionExpires(s) ==
    /\ sessions[s].st = "live"
    /\ ~sessions[s].expired
    /\ sessions' = [sessions EXCEPT ![s].expired = TRUE]
    /\ UNCHANGED <<worldVars, cacheVars, tick, auth>>

\* --------------------------------------------------------- the system
\* a start that looks at the bot token only
StartsVerificationJob_tokenOnly(e) == e.DISCORD_BOT_TOKEN

\* startCronJobs, index.ts line 12
StartsVerificationJob(e) == e.DISCORD_BOT_TOKEN /\ e.DISCORD_GUILD_ID

Init ==
    /\ env \in [DISCORD_BOT_TOKEN : BOOLEAN, DISCORD_GUILD_ID : BOOLEAN]
    /\ jobStarted = StartsVerificationJob(env)
    /\ guild \in SUBSET Ids
    /\ now = 0
    /\ memberIds = {}
    /\ lastSync = <<>>
    /\ syncInProgress = FALSE
    /\ sessions \in [Sids -> {NoRow("unused")} \cup LiveRows]
    /\ tick = [t \in Ticks |-> FreshTick]
    /\ auth = IdleAuth
    /\ read = NoRead
    /\ mask = NoMask
    /\ call = NoCall
    /\ signup = NoSignUp
    /\ masked = NoMasked

\* a start with an empty session store
InitNoSessions ==
    /\ Init
    /\ \A s \in Sids : sessions[s].st = "unused"

\* a start with both Discord settings present, so that the job runs
InitStarted == Init /\ jobStarted

\* The whole system: overlapping ticks beside the passport flows. The clock
\* stands still here and in the next three specifications: no code reads
\* the value of lastSync, so the passing of time shows only in the stamp
\* itself, which SpecClock is about.
Next ==
    \/ \E t \in Ticks : TickStart(t)
    \/ \E t \in Ticks : SyncSucceeds(t)
    \/ \E t \in Ticks : SyncFails(t)
    \/ \E t \in Ticks : QuerySucceeds(t)
    \/ \E t \in Ticks : QueryFails(t)
    \/ \E t \in Ticks : DeleteSucceeds(t)
    \/ \E t \in Ticks : DeleteFails(t)
    \/ \E f \in Flows, id \in Ids : AuthStart(f, id)
    \/ AuthLiveAnswers
    \/ AuthLiveThrows
    \/ \E id \in Ids : GuildChanges(id)
    \/ \E s \in Sids : SessionExpires(s)

Spec == Init /\ [][Next]_vars

\* the cache and the job alone, ticks free to overlap
NextSweep ==
    \/ \E t \in Ticks : TickStart(t)
    \/ \E t \in Ticks : SyncSucceeds(t)
    \/ \E t \in Ticks : SyncFails(t)
    \/ \E t \in Ticks : QuerySucceeds(t)
    \/ \E t \in Ticks : QueryFails(t)
    \/ \E t \in Ticks : DeleteSucceeds(t)
    \/ \E t \in Ticks : DeleteFails(t)
    \/ \E id \in Ids : GuildChanges(id)
    \/ \E s \in Sids : SessionExpires(s)
SpecSweep == Init /\ [][NextSweep]_vars

\* the passport flows beside a job whose ticks do not overlap, from an
\* empty store: every session is one a flow has opened
NextGate ==
    \/ TickStart("t1")
    \/ SyncSucceeds("t1")
    \/ SyncFails("t1")
    \/ QuerySucceeds("t1")
    \/ QueryFails("t1")
    \/ DeleteSucceeds("t1")
    \/ DeleteFails("t1")
    \/ \E f \in Flows, id \in Ids : AuthStart(f, id)
    \/ AuthLiveAnswers
    \/ AuthLiveThrows
    \/ \E id \in Ids : GuildChanges(id)
    \/ \E s \in Sids : SessionExpires(s)
SpecGate == InitNoSessions /\ [][NextGate]_vars

\* password logins beside the job while the server only gains members:
\* whoever the authority lists once, it lists from then on
NextJoin ==
    \/ TickStart("t1")
    \/ SyncSucceeds("t1")
    \/ SyncFails("t1")
    \/ QuerySucceeds("t1")
    \/ QueryFails("t1")
    \/ DeleteSucceeds("t1")
    \/ DeleteFails("t1")
    \/ \E id \in Ids : AuthStart("login", id)
    \/ AuthLiveAnswers
    \/ AuthLiveThrows
    \/ \E id \in Ids : GuildJoins(id)
SpecJoin == InitNoSessions /\ [][NextJoin]_vars

\* One operation at a time: a tick takes a step only while no other tick is
\* between its start and its end (the job as a test drives it, tick by tick)
Busy(t) == tick[t].pc \notin TickRest
Alone(t) == \A u \in Ticks \ {t} : ~Busy(u)

NextSolo ==
    \/ \E t \in Ticks : Alone(t) /\ TickStart(t)
    \/ \E t \in Ticks : Alone(t) /\ SyncSucceeds(t)
    \/ \E t \in Ticks : Alone(t) /\ SyncFails(t)
    \/ \E t \in Ticks : Alone(t) /\ QuerySucceeds(t)
    \/ \E t \in Ticks : Alone(t) /\ QueryFails(t)
    \/ \E t \in Ticks : Alone(t) /\ DeleteSucceeds(t)
    \/ \E t \in Ticks : Alone(t) /\ DeleteFails(t)
    \/ \E id \in Ids : GuildChanges(id)
    \/ \E s \in Sids : SessionExpires(s)
SpecSolo == Init /\ [][NextSolo]_vars

\* The cache and its clock: time passes between the steps; the store is
\* empty, so a tick's sweep has nothing to delete
NextClock ==
    \/ \E t \in Ticks : TickStart(t)
    \/ \E t \in Ticks : SyncSucceeds(t)
    \/ \E t \in Ticks : SyncFails(t)
    \/ \E t \in Ticks : QuerySucceeds(t)
    \/ \E t \in Ticks : QueryFails(t)
    \/ \E id \in Ids : GuildChanges(id)
    \/ ClockAdvances
SpecClock == InitNoSessions /\ [][NextClock]_vars

\* the cache, its clock and callers of its getters
NextReads ==
    \/ \E t \in Ticks : TickStart(t)
    \/ \E t \in Ticks : SyncSucceeds(t)
    \/ \E t \in Ticks : SyncFails(t)
    \/ \E t \in Ticks : QuerySucceeds(t)
    \/ \E t \in Ticks : QueryFails(t)
    \/ \E id \in Ids : GuildChanges(id)
    \/ ClockAdvances
    \/ \E id \in Ids : IsMemberCall(id)
    \/ GetMemberCountCall
    \/ GetLastSyncCall
SpecReads == InitNoSessions /\ [][NextReads]_vars

\* the cache with a caller of its own beside the job, from an empty store
NextCache ==
    \/ SyncCall
    \/ SyncCallResolves
    \/ SyncCallRejects
    \/ \E t \in Ticks : TickStart(t)
    \/ \E t \in Ticks : SyncSucceeds(t)
    \/ \E t \in Ticks : SyncFails(t)
    \/ \E t \in Ticks : QuerySucceeds(t)
    \/ \E t \in Ticks : QueryFails(t)
    \/ \E id \in Ids : GuildChanges(id)
SpecCache == InitNoSessions /\ [][NextCache]_vars

\* the cache with callers of refresh, clear and the getters
NextClear ==
    \/ SyncCall
    \/ SyncCallResolves
    \/ SyncCallRejects
    \/ Clear
    \/ \E t \in Ticks : TickStart(t)
    \/ \E t \in Ticks : SyncSucceeds(t)
    \/ \E t \in Ticks : SyncFails(t)
    \/ \E t \in Ticks : QuerySucceeds(t)
    \/ \E t \in Ticks : QueryFails(t)
    \/ \E id \in Ids : GuildChanges(id)
    \/ \E id \in Ids : IsMemberCall(id)
    \/ GetMemberCountCall
    \/ GetLastSyncCall
SpecClear == InitNoSessions /\ [][NextClear]_vars

\* maskEmail on its own: the arguments of one call are drawn at the start,
\* in a process that does nothing else, and the call is made
InitMask ==
    /\ env = [DISCORD_BOT_TOKEN |-> FALSE, DISCORD_GUILD_ID |-> FALSE]
    /\ jobStarted = StartsVerificationJob(env)
    /\ guild = {}
    /\ now = 0
    /\ memberIds = {}
    /\ lastSync = <<>>
    /\ syncInProgress = FALSE
    /\ sessions = [s \in Sids |-> NoRow("unused")]
    /\ tick = [t \in Ticks |-> FreshTick]
    /\ auth = IdleAuth
    /\ read = NoRead
    /\ call = NoCall
    /\ signup = NoSignUp
    /\ masked = NoMasked
    /\ mask \in [called : {FALSE}, originalEmail : Emails,
                  username : Usernames, options : MaskEmailOptions,
                  result : {<<>>}]

NextMask ==
    /\ ~mask.called
    /\ MaskEmailCall(mask.originalEmail, mask.username, mask.options)
SpecMask == InitMask /\ [][NextMask]_vars

\* maskEmailInData on its own: the object and the options of one call are
\* drawn at the start, and the call is made
InitMasked ==
    /\ env = [DISCORD_BOT_TOKEN |-> FALSE, DISCORD_GUILD_ID |-> FALSE]
    /\ jobStarted = StartsVerificationJob(env)
    /\ guild = {}
    /\ now = 0
    /\ memberIds = {}
    /\ lastSync = <<>>
    /\ syncInProgress = FALSE
    /\ sessions = [s \in Sids |-> NoRow("unused")]
    /\ tick = [t \in Ticks |-> FreshTick]
    /\ auth = IdleAuth
    /\ read = NoRead
    /\ mask = NoMask
    /\ call = NoCall
    /\ signup = NoSignUp
    /\ \E d \in MaskedData, o \in MaskEmailOptions :
           masked = [called |-> FALSE, data |-> d, options |-> o,
                     result |-> d]

NextMasked ==
    /\ ~masked.called
    /\ MaskEmailInDataCall(masked.data, masked.options)
SpecMasked == InitMasked /\ [][NextMasked]_vars

\* handleSignUp on its own: the request and the invitation the database
\* holds for it are drawn at the start; the server's roster changes while
\* the callback waits
InitSignUp ==
    /\ env \in [DISCORD_BOT_TOKEN : {TRUE}, DISCORD_GUILD_ID : BOOLEAN]
    /\ jobStarted = StartsVerificationJob(env)
    /\ guild \in SUBSET Ids
    /\ now = 0
    /\ memberIds = {}
    /\ lastSync = <<>>
    /\ syncInProgress = FALSE
    /\ sessions = [s \in Sids |-> NoRow("unused")]
    /\ tick = [t \in Ticks |-> FreshTick]
    /\ auth = IdleAuth
    /\ read = NoRead
    /\ mask = NoMask
    /\ call = NoCall
    /\ masked = NoMasked
    /\ \E r \in SignUpRequests, i \in Invitations :
           signup = [NoSignUp EXCEPT !.req = r, !.invitation = i]

NextSignUp ==
    \/ SignUpStart
    \/ InvitationAnswers
    \/ \E b \in BOOLEAN : TakenAnswers(b)
    \/ SignUpLiveAnswers
    \/ SignUpLiveThrows
    \/ \E b \in BOOLEAN : GoogleAnswers(b)
    \/ \E b \in BOOLEAN : DeactivatedAnswers(b)
    \/ RegisterSucceeds
    \/ RegisterFails
    \/ SignUpQueryFails
    \/ \E id \in Ids : GuildChanges(id)
SpecSignUp == InitSignUp /\ [][NextSignUp]_vars

\* the job with ticks that do not overlap: each firing finds the one
\* before it ended
NextOne ==
    \/ TickStart("t1")
    \/ SyncSucceeds("t1")
    \/ SyncFails("t1")
    \/ QuerySucceeds("t1")
    \/ QueryFails("t1")
    \/ DeleteSucceeds("t1")
    \/ DeleteFails("t1")
    \/ \E id \in Ids : GuildChanges(id)
    \/ \E s \in Sids : SessionExpires(s)

\* What the schedule and the collaborators are taken to grant the ticks T.
\* TicksFire: every cron firing gets its turn. FetchesSucceed: a roster
\* fetch that keeps being tried does not fail for ever. StoreAnswers: a
\* query or a delete that was sent comes back, perhaps with an error.
\* StoreSucceeds: a query or a delete that keeps being tried does not fail
\* for ever.
TicksFire(T) == \A t \in T : WF_vars(TickStart(t))
FetchesSucceed(T) == \A t \in T : SF_vars(SyncSucceeds(t))
StoreAnswers(T) ==
    \A t \in T :
        /\ WF_vars(QuerySucceeds(t) \/ QueryFails(t))
        /\ WF_vars(DeleteSucceeds(t) \/ DeleteFails(t))
StoreSucceeds(T) ==
    \A t \in T :
        /\ SF_vars(QuerySucceeds(t))
        /\ SF_vars(DeleteSucceeds(t))

\* FetchesSettle: a roster fetch that was sent resolves or rejects
FetchesSettle(T) == \A t \in T : WF_vars(SyncSucceeds(t) \/ SyncFails(t))

\* the cache under overlapping ticks whose fetches settle
SpecRefresh ==
    /\ InitNoSessions /\ [][NextClock]_vars
    /\ FetchesSettle(Ticks)

\* the running job, its ticks firing and its fetches succeeding in the end
SpecTicking ==
    /\ InitStarted /\ [][NextOne]_vars
    /\ TicksFire({"t1"}) /\ FetchesSucceed({"t1"}) /\ StoreAnswers({"t1"})

\* the same with overlapping ticks
SpecTickingOverlap ==
    /\ InitStarted /\ [][NextSweep]_vars
    /\ TicksFire(Ticks) /\ FetchesSucceed(Ticks) /\ StoreAnswers(Ticks)

TypeOK ==
    /\ memberIds \subseteq Ids
    /\ lastSync \in {<<>>} \cup {<<t>> : t \in Times}
    /\ syncInProgress \in BOOLEAN
    /\ sessions \in [Sids -> Rows]
    /\ \A t \in Ticks : tick[t].pc \in TickPcs /\ tick[t].sync \in SyncPaths
    /\ auth.outcome \in Outcomes /\ auth.live \in LiveAnswers
    /\ auth.cache \in CacheAnswers
    /\ read.op \in {"none", "isMember", "getMemberCount", "getLastSync"}
    /\ read.member \in BOOLEAN
    /\ read.count \in 0..Cardinality(Ids)
    /\ signup.pc \in SignUpPcs /\ signup.outcome \in SignUpOutcomes
    /\ signup.req \in SignUpRequests /\ signup.invitation \in Invitations
    /\ signup.discord_id \in Invitations /\ signup.asked \in Ids \cup {NoId}
    /\ signup.registered \in Ids \cup {NoId}
    /\ signup.live \in LiveAnswers

\* =============================================================== claims

\* the step in which tick t's own fetch resolves and the cache is replaced
SyncedStep(t) == tick[t].pc = "sync_await" /\ tick'[t].sync = "synced"

\* the step in which tick t's own syncGuildMembers call starts or ends
\* without having replaced the cache
InFlight(t) == tick[t].pc = "sync_await"

\* C1: in each flow (login, Discord OAuth, signup), an attempt whose live
\* membership check threw never ends authorized: no user is handed to the
\* framework.
C1_FailClosed ==
    (auth.pc = "done" /\ auth.live = "error") => auth.outcome # "authorized"

C1_Witness ==
    /\ auth.pc = "done"
    /\ auth.live = "error"
    /\ auth.flow = "discord"
    /\ ~IsMember(auth.id)
    /\ auth.outcome = "error_raw"

\* C2: while lastSync is absent (no refresh has ever succeeded) no step of
\* the system removes a session from the store.
C2_NoSweepNeverSynced ==
    [][lastSync = <<>> =>
        \A s \in Sids : sessions[s].st = "live" => sessions'[s].st = "live"]_vars

\* C3: from the moment a refresh call is in flight until it ends without
\* success, the member set and lastSync stay as they were: the failing call
\* changes neither, and nothing else can while it is in flight.
C3_FailStale ==
    [][\A t \in Ticks :
          ((InFlight(t) \/ InFlight(t)') /\ ~SyncedStep(t))
              => (memberIds' = memberIds /\ lastSync' = lastSync)]_vars

C3_Witness ==
    \E t \in Ticks :
        /\ tick[t].pc = "failed"
        /\ tick[t].sync = "threw"
        /\ memberIds # {}
        /\ memberIds # guild
        /\ lastSync # <<>>

\* C4: at most one roster fetch is outstanding at any time.
C4_SingleFlight ==
    Cardinality({t \in Ticks : tick[t].pc = "sync_await"}) <= 1

C4_Witness ==
    \E t, u \in Ticks :
        /\ tick[t].pc = "sync_await"
        /\ tick[u].sync = "skipped"
        /\ tick[u].pc = "query_await"

\* C5: a refresh call that found another refresh in flight settles in a way
\* its caller can tell from a successful refresh.
C5_SkipIsReported ==
    \A t \in Ticks :
        tick[t].sync = "skipped" => Settled(tick[t].sync) # Settled("synced")

Carries(s, x) == Selected(s) /\ sessions[s].discord_id = x

Enforced(x) ==
    <>[](x \notin guild) => <>[](\A s \in Sids : ~Carries(s, x))

C7_Original == \A x \in Ids : Enforced(x)

\* C7 amended: the same, given also that the store's queries and deletes
\* do not fail for ever.
C7_Revocation ==
    StoreSucceeds({"t1"}) => \A x \in Ids : Enforced(x)

C7_Witness ==
    /\ tick["t1"].pc = "complete"
    /\ tick["t1"].sync = "synced"
    /\ tick["t1"].deletedCount = 1
    /\ guild = {"B"}
    /\ memberIds = {"B"}
    /\ sessions[1].st = "deleted"
    /\ sessions[2] = [st |-> "live", discord_id |-> "B", expired |-> FALSE]

\* C8: a successful refresh leaves isMember(x) true exactly for the x of the
\* roster it fetched, and no other step changes any isMember answer.
C8_FastPath ==
    [][IF \E t \in Ticks : SyncedStep(t)
       THEN \A x \in Ids : IsMember(x)' <=> x \in guild
       ELSE \A x \in Ids : IsMember(x)' <=> IsMember(x)]_vars

C8_Witness ==
    \E t \in Ticks :
        /\ tick[t].sync = "synced"
        /\ tick[t].pc = "query_await"
        /\ IsMember("A")
        /\ ~IsMember("B")
        /\ guild = {"A"}

\* C9: every step leaves the pair (member set, lastSync) untouched or
\* replaces both at once, the member set by a complete fetched roster and
\* lastSync by the stamp of that fetch.
C9_NoTornRead ==
    [][\/ <<memberIds, lastSync>>' = <<memberIds, lastSync>>
       \/ /\ \E t \in Ticks : SyncedStep(t)
          /\ memberIds' = guild
          /\ lastSync' = <<now>>]_vars

C9_Witness ==
    \E t, u \in Ticks :
        /\ tick[t].pc = "delete_await"
        /\ tick[u].pc = "query_await"
        /\ tick[u].sync = "synced"
        /\ memberIds # {}

\* C10 as claimed: a successful refresh that fetches the roster the cache
\* already holds from an earlier success leaves the member set equal and
\* makes lastSync strictly later (checked where the clock still has room).
SecondSync(t) == SyncedStep(t) /\ lastSync # <<>> /\ memberIds = guild

C10_Original ==
    [][\A t \in Ticks :
          (SecondSync(t) /\ lastSync[1] < MaxClock)
              => (memberIds' = memberIds /\ lastSync'[1] > lastSync[1])]_vars

\* C10 amended: the member set is equal, lastSync is the clock's reading at
\* the second completion, never earlier than the first stamp, and later
\* exactly when the clock has advanced since the first.
C10_Idempotent ==
    [][\A t \in Ticks :
          SecondSync(t)
              => /\ memberIds' = memberIds
                 /\ lastSync' = <<now>>
                 /\ lastSync'[1] >= lastSync[1]
                 /\ (lastSync'[1] > lastSync[1] <=> now > lastSync[1])]_vars

C10_Witness ==
    /\ \A t \in Ticks : tick[t].pc = "complete" /\ tick[t].sync = "synced"
    /\ memberIds = guild
    /\ memberIds # {}
    /\ lastSync = <<1>>

\* C11: the in-flight flag is true exactly while one roster fetch is
\* outstanding; so once the call that set it has returned or thrown, and
\* until the next call sets it again, the flag is false.
C11_FlagCleared ==
    syncInProgress <=> Cardinality({t \in Ticks : InFlight(t)}) = 1

C11_Witness ==
    /\ tick["t1"].pc = "failed"
    /\ tick["t1"].sync = "threw"
    /\ tick["t2"].pc = "complete"
    /\ tick["t2"].sync = "synced"
    /\ ~syncInProgress

\* C12: when DISCORD_GUILD_ID is not set, no flow asks the cache or waits
\* on a live check, and no flow ends with a user handed to the framework
\* or a session opened.
C12_ConfigFailsClosed ==
    ~env.DISCORD_GUILD_ID =>
        /\ auth.pc # "live_await"
        /\ auth.cache = "none"
        /\ auth.live = "none"
        /\ auth.outcome # "authorized"
        /\ \A s \in Sids : sessions[s].st = "unused"

C12_Witness ==
    /\ ~env.DISCORD_GUILD_ID
    /\ auth.pc = "done"
    /\ auth.flow = "signup"
    /\ auth.id \in guild
    /\ auth.outcome = "denied_config"

\* C13: a flow starts its live check only on a cache miss: never for an
\* identity the cache holds at that moment.
C13_CacheFirst ==
    [][(auth.pc # "live_await" /\ auth'.pc = "live_await")
          => ~IsMember(auth'.id)]_vars

\* C14: a live check that answers decides the gate by its answer alone:
\* the step in which it answers denies for non-membership exactly when the
\* identity is not in the guild, and otherwise lets the flow proceed (the
\* login flow, which has nothing left to check, authorizes and opens the
\* session).
C14_LiveVerdict ==
    [][(auth.pc = "live_await" /\ auth'.live \in {"true", "false"})
          => /\ auth'.live = "true" <=> auth.id \in guild
             /\ auth'.outcome = "denied_not_member" <=> auth.id \notin guild
             /\ auth.id \in guild =>
                    /\ auth'.outcome \in PassedOutcomes(auth.flow)
                    /\ auth.flow = "login" => auth'.outcome = "authorized"
                    /\ auth'.outcome = "authorized" =>
                           (FreeSids # {} => sessions' # sessions)
             /\ auth.id \notin guild => sessions' = sessions]_vars

C14_Witness ==
    /\ auth.pc = "done"
    /\ auth.flow = "discord"
    /\ auth.cache = "miss"
    /\ auth.live = "true"
    /\ auth.outcome = "authorized"
    /\ \E s \in Sids : sessions[s].st = "live"
                        /\ sessions[s].discord_id = auth.id

\* C15: a DELETE that fails does not end the sweep: a tick ends at a failed
\* DELETE only when no enumerated session is left after it.
C15_SweepContinues ==
    [][\A t \in Ticks :
          (tick[t].pc = "delete_await" /\ tick'[t].pc = "failed")
              => tick[t].i = Len(tick[t].rows)]_vars

\* C17: a tick whose refresh fails while the cache holds an earlier
\* successful sync goes on to query and sweep the sessions.
C17_SweepsOnStale ==
    [][\A t \in Ticks :
          (InFlight(t) /\ tick'[t].sync = "threw" /\ lastSync # <<>>)
              => tick'[t].pc = "query_await"]_vars

C18_PureReads ==
    /\ [](lastSync = <<>> => \A x \in Ids : ~IsMember(x))
    /\ [][read' # read =>
             /\ cacheVars' = cacheVars
             /\ tick' = tick
             /\ <<env, jobStarted, guild, now, sessions, auth>>'
                    = <<env, jobStarted, guild, now, sessions, auth>>
             /\ read'.op = "isMember" =>
                    (read'.member <=> read'.arg \in memberIds)
             /\ read'.op = "getMemberCount" =>
                    read'.count = Cardinality(memberIds)
             /\ read'.op = "getLastSync" => read'.stamp = lastSync]_vars

C18_Witness ==
    /\ read.op = "isMember"
    /\ read.arg \in guild
    /\ ~read.member
    /\ lastSync = <<>>
    /\ \E t \in Ticks : tick[t].pc = "failed"

\* the ways a flow ends that show the user a message about the gate
UserFacing == {"denied_config", "denied_unavailable", "denied_not_member"}

\* C19: a flow whose gate failed (no guild id, a live check that threw, a
\* live check that answered no) ends with a denial shown to the user and
\* never hands an error object on.
C19_TwoOutcomes ==
    /\ (auth.pc = "done" /\ auth.live \in {"error", "false"})
           => auth.outcome \in UserFacing
    /\ (auth.pc = "done" /\ ~env.DISCORD_GUILD_ID)
           => auth.outcome # "error_raw"

\* C20: the verification job is started only with both the bot token and
\* the guild id set; without the guild id it is not started and no tick
\* ever runs.
C20_NoSweeperUnconfigured ==
    /\ jobStarted => (env.DISCORD_BOT_TOKEN /\ env.DISCORD_GUILD_ID)
    /\ ~env.DISCORD_GUILD_ID =>
           /\ ~jobStarted
           /\ \A t \in Ticks : tick[t] = FreshTick
           /\ cacheVars = <<{}, <<>>, FALSE>>

\* the process has been serving requests, and still no tick has run
C20_Witness ==
    /\ env.DISCORD_BOT_TOKEN
    /\ ~env.DISCORD_GUILD_ID
    /\ ~jobStarted
    /\ \A t \in Ticks : tick[t] = FreshTick
    /\ auth.pc = "done"
    /\ auth.flow = "login"
    /\ auth.outcome = "denied_config"

\* what the claim calls the inputs of maskEmail
HasEmail == ~Falsy(mask.originalEmail)
MayViewEmail ==
    \/ mask.options.isAdmin = "true"
    \/ mask.options.isOwnProfile = "true"
    \/ mask.options.isPendingInvitation = "true"
MaskName ==
    IF mask.username \notin {Absent, <<>>} THEN mask.username
    ELSE IF LocalPart(mask.originalEmail) # <<>>
    THEN LocalPart(mask.originalEmail)
    ELSE <<"user">>

\* C21 as claimed: for a non-empty email maskEmail returns the original
\* exactly when one of the three flags is set; with none set it returns
\* name@esx-framework.org, never the original; for an empty or absent
\* email it returns the empty string.
C21_Original ==
    mask.called =>
        /\ HasEmail => (mask.result = mask.originalEmail <=> MayViewEmail)
        /\ (HasEmail /\ ~MayViewEmail) => mask.result = MaskName \o MaskDomain
        /\ ~HasEmail => mask.result = <<>>

\* C21 amended: with a flag set the result is the original email; with
\* none set it is name@esx-framework.org, which is the original email
\* exactly when the original already is that very address; for an empty or
\* absent email it is the empty string.
C21_MaskEmail ==
    mask.called =>
        /\ (HasEmail /\ MayViewEmail) => mask.result = mask.originalEmail
        /\ (HasEmail /\ ~MayViewEmail) =>
               /\ mask.result = MaskName \o MaskDomain
               /\ (mask.result = mask.originalEmail)
                      <=> (mask.originalEmail = MaskName \o MaskDomain)
        /\ ~HasEmail => mask.result = <<>>

C21_Witness ==
    /\ mask.called
    /\ mask.originalEmail = <<"@", "j">>
    /\ mask.username = <<>>
    /\ mask.options.isAdmin = "false"
    /\ mask.result = <<"user", "@", "esx-framework.org">>

\* a call of syncGuildMembers from outside the job is made in this step
Called == call.pc \in {"idle", "done"} /\ call' # call

\* C22: a call of syncGuildMembers made while no sync is in progress and no
\* guild id is set throws the configuration Error at once: it does not
\* reach the fetch, and the member set, lastSync and the flag (false) are
\* as before.
C22_ConfigError ==
    [][(Called /\ ~syncInProgress /\ ~env.DISCORD_GUILD_ID)
          => /\ call' = Returned("threw", "config")
             /\ memberIds' = memberIds
             /\ lastSync' = lastSync
             /\ syncInProgress' = FALSE]_vars

C22_Witness ==
    /\ ~env.DISCORD_GUILD_ID
    /\ call = Returned("threw", "config")
    /\ ~syncInProgress
    /\ guild # {}
    /\ memberIds = {}

\* C23: given that every fetch resolves or rejects, a flag that is set is
\* cleared in the end; and the flag changes only from false to true, in the
\* step in which a call that found it false goes to its fetch, and from
\* true to false, in the step in which that call's fetch settles.
C23_FlagMachine ==
    /\ syncInProgress ~> ~syncInProgress
    /\ [][/\ (~syncInProgress /\ syncInProgress') =>
               \E t \in Ticks : ~InFlight(t) /\ InFlight(t)'
          /\ (syncInProgress /\ ~syncInProgress') =>
               \E t \in Ticks :
                   /\ InFlight(t) /\ ~InFlight(t)'
                   /\ tick'[t].sync \in {"synced", "threw"}
          /\ \A t \in Ticks :
               (~InFlight(t) /\ InFlight(t)') => ~syncInProgress
          /\ \A t \in Ticks :
               (InFlight(t) /\ ~InFlight(t)') => ~syncInProgress']_vars

C23_Witness ==
    /\ ~syncInProgress
    /\ tick["t1"].pc = "query_await"
    /\ tick["t1"].sync = "skipped"
    /\ tick["t2"].pc = "failed"
    /\ tick["t2"].sync = "threw"
    /\ lastSync = <<1>>

\* the session s leaves the store in this step
Removed(s) == sessions[s].st = "live" /\ sessions'[s].st # "live"

\* tick t is at the DELETE of session s
Deleting(t, s) ==
    tick[t].pc = "delete_await" /\ tick[t].rows[tick[t].i].sid = s

\* every step leaves the sessions that stay in the store as they are, but
\* for their passing their expire time
IdentityKept ==
    \A s \in Sids :
        sessions'[s].st = "live" =>
            /\ sessions[s].st = "live"
            /\ sessions'[s].discord_id = sessions[s].discord_id

\* C24 as claimed: a session leaves the store only by the DELETE of a tick
\* that enumerated it, a session without identity or already expired never
\* does, and no session's identity is ever modified.
C24_Original ==
    [][/\ \A s \in Sids :
            Removed(s) =>
                /\ \E t \in Ticks : Deleting(t, s)
                /\ sessions[s].discord_id # NoId
                /\ ~sessions[s].expired
       /\ IdentityKept]_vars

\* C24 amended: a session leaves the store only by the DELETE of a tick
\* that enumerated it; a tick enumerates only sessions that carry an
\* identity and are unexpired at that moment, and keeps its enumeration
\* as it is to the end; no session's identity is ever modified.
C24_SweepFrame ==
    [][/\ \A s \in Sids :
            Removed(s) =>
                /\ \E t \in Ticks : Deleting(t, s)
                /\ sessions[s].discord_id # NoId
       /\ \A t \in Ticks :
            (tick[t].pc = "query_await" /\ tick'[t].pc = "delete_await")
                => \A k \in 1..Len(tick'[t].rows) :
                       LET row == sessions[tick'[t].rows[k].sid]
                       IN /\ row.st = "live"
                          /\ row.discord_id # NoId
                          /\ ~row.expired
                          /\ tick'[t].rows[k].discord_id = row.discord_id
       /\ \A t \in Ticks :
            (tick[t].pc = "delete_await" /\ tick'[t].pc = "delete_await")
                => tick'[t].rows = tick[t].rows
       /\ IdentityKept]_vars

C24_Witness ==
    \E t \in Ticks :
        /\ tick[t].pc = "complete"
        /\ tick[t].sync = "synced"
        /\ tick[t].deletedCount = 1
        /\ memberIds = {}
        /\ sessions[1] = [st |-> "live", discord_id |-> "A", expired |-> TRUE]
        /\ sessions[2].st = "deleted"

\* C25: a tick adds one to its count of invalidated sessions only in a
\* step in which a session leaves the store.
C25_CountIsRemovals ==
    [][\A t \in Ticks :
          tick'[t].deletedCount = tick[t].deletedCount + 1
              => \E s \in Sids : Removed(s)]_vars

\* C26: in every flow an attempt whose live check threw ends with the
\* try-again-later outcome.
C26_ErrorIsUnavailable ==
    (auth.pc = "done" /\ auth.live = "error")
        => auth.outcome = "denied_unavailable"

\* C27: nothing is tried twice. A tick goes to its roster fetch only from
\* rest, in the step that starts it, and leaves the fetch for the query or
\* for its end; it never comes back to the fetch from the query or from a
\* DELETE. A verify callback goes to its live check only in the step that
\* starts it and from there to its end.
C27_NoRetry ==
    [][/\ \A t \in Ticks :
            /\ (~InFlight(t) /\ InFlight(t)') => tick[t].pc \in TickRest
            /\ (InFlight(t) /\ syncInProgress' # syncInProgress)
                   => tick'[t].pc \in {"query_await", "failed"}
            /\ tick[t].pc \in {"query_await", "delete_await"}
                   => tick'[t].pc \in {"query_await", "delete_await",
                                       "complete", "failed"}
       /\ (auth.pc # "live_await" /\ auth'.pc = "live_await")
              => auth.pc \in {"idle", "done"}
       /\ (auth.pc = "live_await" /\ auth' # auth) => auth'.pc = "done"]_vars

C27_Witness ==
    /\ tick["t1"].pc = "failed"
    /\ tick["t1"].sync = "threw"
    /\ ~syncInProgress
    /\ auth.pc = "done"
    /\ auth.live = "error"
    /\ auth.outcome = "denied_unavailable"

\* C28: every step that sends a DELETE sends it for a session that has just
\* failed the membership test; a DELETE that returns takes at most its own
\* session from the store and leaves every other as it was, and if its
\* session is already gone it leaves the whole store as it was and the tick
\* goes on; a tick that ends early leaves the store as it is.
C28_PartialSweepSafe ==
    [][\A t \in Ticks :
          /\ (tick'[t].pc = "delete_await" /\ tick'[t] # tick[t])
                 => /\ ~IsMember(tick'[t].rows[tick'[t].i].discord_id)
                    /\ memberIds' = memberIds
          /\ (tick[t].pc = "delete_await" /\ tick'[t] # tick[t])
                 => LET sid == tick[t].rows[tick[t].i].sid
                    IN /\ \A s \in Sids \ {sid} : sessions'[s] = sessions[s]
                       /\ sessions[sid].st # "live" => sessions' = sessions
                       /\ sessions'[sid].st = "live" => tick'[t].pc = "failed"
          /\ (Busy(t) /\ tick'[t].pc = "failed") => sessions' = sessions]_vars

C28_Witness ==
    /\ \A t \in Ticks : tick[t].pc = "complete" /\ tick[t].deletedCount = 1
    /\ sessions[1].st = "deleted"
    /\ sessions[2].st = "unused"

\* C29: a flow ends authorized only in a step in which the identity is in
\* the cache's member set, or in which a live check made in this attempt
\* answers that the identity is in the guild.
C29_GateSound ==
    [][(auth' # auth /\ auth'.pc = "done" /\ auth'.outcome = "authorized")
          => \/ auth.pc # "live_await" /\ IsMember(auth'.id)
             \/ /\ auth.pc = "live_await"
                /\ auth'.live = "true"
                /\ auth.id \in guild]_vars

C29_Witness ==
    /\ auth.pc = "done"
    /\ auth.flow = "login"
    /\ auth.cache = "hit"
    /\ auth.outcome = "authorized"
    /\ auth.id \notin guild
    /\ IsMember(auth.id)

\* C30: a tick sends a DELETE only after a roster fetch of its own has
\* succeeded.
C30_DeleteAfterOwnFetch ==
    \A t \in Ticks : tick[t].pc = "delete_await" => tick[t].sync = "synced"

\* where tick t's loop stands: the row it is deleting, 0 before the loop,
\* past the last row when the loop has run out
LoopAt(tk) == IF tk.pc = "delete_await" THEN tk.i ELSE 0

\* C31: in every step of a tick's loop the rows it passes over are rows
\* whose identity is in the member set at that moment, and the row it
\* stops at to delete is one whose identity is not; the loop only moves
\* forward, so a row passed over is not deleted by this tick, whatever a
\* concurrent refresh does to the cache later; and a session leaves the
\* store only at the DELETE of the row a tick stopped at.
C31_DeleteOnlyTestedAbsent ==
    [][/\ \A t \in Ticks :
            (tick[t].pc \in {"query_await", "delete_await"}
             /\ tick'[t] # tick[t] /\ tick'[t].pc \in {"delete_await", "complete"})
                => LET rows == IF tick[t].pc = "query_await"
                               THEN SessionsQuery ELSE tick[t].rows
                       to == IF tick'[t].pc = "delete_await"
                             THEN tick'[t].i ELSE Len(rows) + 1
                   IN /\ to > LoopAt(tick[t])
                      /\ \A k \in (LoopAt(tick[t]) + 1)..(to - 1) :
                             rows[k].discord_id \in memberIds
                      /\ tick'[t].pc = "delete_await" =>
                             /\ tick'[t].rows = rows
                             /\ rows[to].discord_id \notin memberIds
                      /\ memberIds' = memberIds
       /\ \A s \in Sids : Removed(s) => \E t \in Ticks : Deleting(t, s)]_vars

C31_Witness ==
    /\ tick["t1"].pc = "delete_await"
    /\ tick["t1"].i = 2
    /\ IsMember(tick["t1"].rows[2].discord_id)
    /\ tick["t2"].pc = "query_await"
    /\ tick["t2"].sync = "synced"
    /\ sessions[1].st = "live"

\* C32: where the server only gains members, so that an identity admitted
\* by a live check is listed by the authority ever after, no tick removes
\* a session of an identity the authority lists.
C32_SlowPathSessionKept ==
    [][\A s \in Sids : Removed(s) => sessions[s].discord_id \notin guild]_vars

\* C33: a step of a verify callback leaves the member set, lastSync and the
\* in-flight flag as they are, on the fast path and on the slow path; the
\* member set and lastSync change only in the step in which a refresh's
\* fetch resolves, so an identity a live check confirmed is in the cache
\* only once a refresh has fetched it.
C33_AuthNeverWritesCache ==
    [][/\ auth' # auth => cacheVars' = cacheVars
       /\ <<memberIds, lastSync>>' # <<memberIds, lastSync>>
              => \E t \in Ticks : SyncedStep(t) /\ memberIds' = guild]_vars

C33_Witness ==
    /\ auth.pc = "done"
    /\ auth.flow = "login"
    /\ auth.live = "true"
    /\ auth.outcome = "authorized"
    /\ ~IsMember(auth.id)
    /\ lastSync # <<>>
    /\ tick["t1"].pc = "complete"

\* C34: in every state reached by refreshes, clears and reads, an absent
\* lastSync implies an empty member set: when getLastSync() is null,
\* getMemberCount() is 0 and isMember is false of every identity.
C34_AbsentStampEmptySet ==
    GetLastSync = <<>> =>
        /\ GetMemberCount = 0
        /\ \A id \in Ids : ~IsMember(id)

\* a cache that a call had refreshed, and no tick, cleared since, beside a
\* server with members, and a getLastSync that returned null
C34_Witness ==
    /\ call = Returned("synced", "none")
    /\ tick["t1"].pc = "idle"
    /\ tick["t2"].pc = "idle"
    /\ guild = Ids
    /\ lastSync = <<>>
    /\ memberIds = {}
    /\ read.op = "getLastSync"
    /\ read.stamp = <<>>

\* a step that takes the stamp of a synced cache away
Clears == lastSync # <<>> /\ lastSync' = <<>>

\* the fetch of the caller outside the job resolves in this step
CallSynced == call.pc = "fetch_await" /\ call'.sync = "synced"

\* C35: clear empties the member set and makes lastSync absent and leaves
\* the in-flight flag as it is; a refresh in flight at that moment stays in
\* flight, and when its fetch resolves it installs the fetched roster and
\* a new lastSync over the cleared state and lowers the flag.
C35_ClearKeepsRefresh ==
    [][/\ Clears => /\ memberIds' = {}
                    /\ syncInProgress' = syncInProgress
                    /\ call' = call
                    /\ tick' = tick
       /\ CallSynced => /\ memberIds' = guild
                        /\ lastSync' = <<now>>
                        /\ ~syncInProgress'
       /\ \A t \in Ticks : SyncedStep(t) => /\ memberIds' = guild
                                             /\ lastSync' = <<now>>
                                             /\ ~syncInProgress']_vars

\* the fetch of a call is in flight over a cache that a tick had refreshed
\* from a server with members and that holds nothing any more
C35_Witness ==
    /\ call.pc = "fetch_await"
    /\ syncInProgress
    /\ tick["t1"].pc = "complete"
    /\ tick["t1"].sync = "synced"
    /\ tick["t2"].pc = "idle"
    /\ guild = Ids
    /\ lastSync = <<>>
    /\ memberIds = {}

\* the checks of handleSignUp in the order of the code
SignUpChecks ==
    <<"team_name", "team_member_id", "invitation", "discord_id", "format",
      "not_taken", "guild_id", "in_guild", "no_google", "not_deactivated">>

\* C36: the checks of a signup are passed in one order, and a signup that
\* registers a user has passed them all: the invitation was found, it
\* carries a well-formed Discord id, the id was not taken, the guild id is
\* set, the live check asked about the invitation's id and answered true.
\* The id registered is the invitation's, whatever discord_id the request
\* held, so requests that differ only in it register the same id.
C36_SignUpByInvitation ==
    /\ \E k \in 0..Len(SignUpChecks) :
           signup.passed = SubSeq(SignUpChecks, 1, k)
    /\ signup.outcome = "registered" =>
          /\ signup.passed = SignUpChecks
          /\ signup.invitation \in Ids
          /\ ~signup.taken
          /\ env.DISCORD_GUILD_ID
          /\ signup.asked = signup.invitation
          /\ signup.live = "true"
          /\ signup.registered = signup.invitation

\* a user registered under the invitation's id by a request that held
\* another id
C36_Witness ==
    /\ signup.outcome = "registered"
    /\ signup.invitation = "A"
    /\ signup.req.discord_id = "B"
    /\ signup.registered = "A"
    /\ signup.asked = "A"
    /\ signup.live = "true"

\* C37: for a single object whose email field is a string, the object that
\* maskEmailInData returns holds maskEmail(email, name, options), for the
\* options of the caller, in its email field and the other fields as they
\* were.
C37_AgreesWithMaskEmail ==
    (masked.called /\ masked.data.email # Absent) =>
        /\ masked.result.email =
               MaskEmail(masked.data.email, masked.data.name, masked.options)
        /\ masked.result.name = masked.data.name
        /\ masked.result.pending = masked.data.pending
        /\ masked.result.other = masked.data.other

====
